---- MODULE Spec2Model ----
(***************************************************************************)
(* A model of Kernel.py: the signal bus (signal / delegate_messages /      *)
(* process_queue / listen / unlisten), the lifecycle registry, the         *)
(* Scheduler worker with its KernelJobs, and Kernel.shutdown.              *)
(*                                                                         *)
(* Every statement of a method that reads or writes shared state is one    *)
(* step of the calling thread; pc[t] is the statement thread t executes    *)
(* next.  Python objects that are shared by reference (the listener lists) *)
(* live in a heap, so that a reference taken before a dictionary entry is  *)
(* replaced still designates the old object.                               *)
(***************************************************************************)
EXTENDS Integers, Sequences, FiniteSets, TLC

\* ------------------------------------------------------------- bounds
\* Number of caller threads that may be inside the bus at the same time.
NThreads == 2
\* Total number of subscriptions (list entries over all topics) a run makes.
MaxSubs == 2
\* Number of jobs callers add to the flush job that boot() registers.
MaxJobs == 2
\* Largest finite run count a job is registered with.
MaxTimes == 2
\* Number of jobs callers add where the scheduler is also paused and stopped.
SchedJobs == 1
\* Length of a timed run of the scheduler, in units of 50 ms.
Horizon == 8

\* ------------------------------------------------------------- values
Topics == {"a", "b", "c"}
\* The topics the single caller of the bus uses.
BusTopics == {"a", "b"}
Fns == {"f", "g"}
\* A listener that raises when it is called.
FaultyFns == {"x"}
\* a listener that calls kernel.signal(CbTopic, CbValue)
EmitterFns == {"e"}
CbTopic == "b"
CbValue == "cb"
Values == {"v1", "v2"}
None == "None"
Threads == 1 .. NThreads
\* The Scheduler thread, when it is inside the bus (the flush job).
Worker == 0
AllThreads == {Worker} \cup Threads

VARIABLES
    listeners,            \* self.listeners: key -> reference of a list object
    lists,                \* the heap of list objects: reference -> list
    last_message,         \* self.last_message: code -> message
    message_queue,        \* self.message_queue: insertion-ordered <<code, message>>
    queue_lock,           \* self.queue_lock: 0 when free, else the holding thread
    is_queue_processing,  \* self.is_queue_processing
    pc,                   \* per thread: the statement it executes next
    loc,                  \* per thread: the locals of the method it is in
    hist,                 \* per thread: what its current or last call did
    prev,                 \* per topic: the pending value the last signal() replaced
    latest,               \* per topic: the value of the last signal() since the swap
    modules,              \* self.modules: name -> the methods the module object has
    mstate,               \* per registered module: the lifecycle method it ran last
    life,                 \* the last lifecycle call: what it was and what it found
    state,                \* self.cron.state
    jobs,                 \* self.cron.jobs: the list of job objects, in order
    job,                  \* the KernelJob objects: id -> fields
    wpc,                  \* the statement of Scheduler.run the worker executes next
    ji,                   \* the list iterator of `for job in self.jobs`: next index
    cur,                  \* the job the worker is at
    wsleep,               \* time left of the time.sleep() the worker is in
    runs,                 \* per job: the count it was registered with (n) and, when
                          \* that is finite, the invocations of its work item (done)
    pauseReq,             \* whether pause() was called since the last resume(), and when
    threads,              \* self.threads: the registered thread names, in order
    alive,                \* the thread objects registered: unstarted, alive or dead
    sd,                   \* the call of shutdown(): where it is and what it has done
    conc,                 \* history of the concurrent emitters: what each thread
                          \* signalled and what the flushes delivered
    clock                 \* history of a timed run: the time the worker has run
                          \* and the executions of each job in that time

busVars == <<listeners, lists, last_message, message_queue, queue_lock,
             is_queue_processing, pc, loc, hist, prev, latest>>

lifeVars == <<modules, mstate, life>>

schedVars == <<state, jobs, job, wpc, ji, cur, wsleep, runs, pauseReq, threads>>

regVars == <<alive, sd, conc, clock>>

vars == <<busVars, lifeVars, schedVars, regVars>>

nonBusVars == <<lifeVars, schedVars, regVars>>

\* ------------------------------------------------------ Python dicts
EmptyDict == [k \in {} |-> None]

Has(d, k) == k \in DOMAIN d

DictSet(d, k, v) == [x \in (DOMAIN d) \cup {k} |-> IF x = k THEN v ELSE d[x]]

\* A pending map that would keep the first value of a topic instead of the
\* last: what signal() must not do.
QueuePut_KeepFirst(q, code, message) ==
    IF \E i \in 1 .. Len(q) : q[i][1] = code
    THEN q
    ELSE Append(q, <<code, message>>)

\* d[code] = message on an insertion-ordered dict: an existing key keeps its
\* place and gets the new value, a new key goes to the end.
QueuePut(q, code, message) ==
    IF \E i \in 1 .. Len(q) : q[i][1] = code
    THEN [i \in 1 .. Len(q) |-> IF q[i][1] = code THEN <<code, message>> ELSE q[i]]
    ELSE Append(q, <<code, message>>)

QueueHas(q, code) == \E i \in 1 .. Len(q) : q[i][1] = code

QueueGet(q, code) == q[CHOOSE i \in 1 .. Len(q) : q[i][1] = code][2]

\* list.remove(x): the list without the first occurrence of x.
FirstIndex(s, x) == CHOOSE i \in 1 .. Len(s) : s[i] = x /\ \A j \in 1 .. (i - 1) : s[j] # x

ListRemove(s, x) ==
    LET i == FirstIndex(s, x)
    IN  [j \in 1 .. (Len(s) - 1) |-> IF j < i THEN s[j] ELSE s[j + 1]]

InList(s, x) == \E i \in 1 .. Len(s) : s[i] = x

\* A reference to a list object names the key it was created for and how many
\* list objects had been created for that key before it.
NoRef == <<None, 0>>

NewRef(k) == <<k, Cardinality({r \in DOMAIN lists : r[1] = k}) + 1>>

\* The list a key of self.listeners designates, <<>> when there is none.
ListOf(k) == IF Has(listeners, k) THEN lists[listeners[k]] ELSE <<>>

\* self.listeners with every reference replaced by the list it designates.
ListenerMap == [k \in DOMAIN listeners |-> lists[listeners[k]]]

RECURSIVE SumLen(_)
SumLen(S) ==
    IF S = {} THEN 0
    ELSE LET k == CHOOSE x \in S : TRUE
         IN  Len(lists[listeners[k]]) + SumLen(S \ {k})

Subscriptions == SumLen(DOMAIN listeners)

\* ------------------------------------------------ per-thread records
NoLoc == [code |-> None, message |-> None, function |-> None,
          queue |-> <<>>, qi |-> 0, ref |-> NoRef, li |-> 0]

NoHist == [op |-> "none", a |-> None, b |-> None, raised |-> "none",
           preListeners |-> EmptyDict, preLast |-> EmptyDict, preQueue |-> <<>>,
           unsub |-> <<None, None>>, calls |-> <<>>, bPrev |-> [k \in Topics |-> None],
           bLatest |-> [k \in Topics |-> None], swapped |-> FALSE]

\* What a call remembers from the moment it was made: its name and, for the
\* subscription calls, its arguments and the three maps as it found them.
Enter(op) == [NoHist EXCEPT !.op = op]

EnterWith(op, a, b) ==
    [NoHist EXCEPT !.op = op, !.a = a, !.b = b,
                   !.preListeners = ListenerMap,
                   !.preLast = last_message,
                   !.preQueue = message_queue]

Idle(t) == pc[t] = "idle"

\* The call of thread t has returned; hist[t] tells what it did.
Returned(t) == pc[t] = "return"

Count(list, x) == Cardinality({i \in 1 .. Len(list) : list[i] = x})

PreList(h, k) == IF Has(h.preListeners, k) THEN h.preListeners[k] ELSE <<>>

\* The call h was unlisten(signal, function), arguments in the documented
\* order, for a function that was in the signal's list exactly once.
UnsubscribedOnce(h) ==
    /\ h.op = "unlisten"
    /\ h.a \in Topics /\ h.b \in Fns
    /\ Count(PreList(h, h.a), h.b) = 1

\* The listener invocations a call made for one code, in order.
CallsFor(h, k) == SelectSeq(h.calls, LAMBDA c : c[1] = k)

\* One invocation for every entry of a list, in list order, with message m.
OncePerEntry(k, list, m) == [i \in 1 .. Len(list) |-> <<k, list[i], m>>]

\* A process_queue cycle of thread t has run to its end.
Flushed(t) == Returned(t) /\ hist[t].op = "process_queue"

\* The same cycle, once it holds its snapshot of the pending map.
Flushing(t) == hist[t].op = "process_queue" /\ hist[t].swapped

\* ------------------------------------------------------------ signal
\* Kernel.signal(code, message), entered by thread t:
\* self.queue_lock.acquire(True).  A caller that finds the lock held waits
\* here, having changed nothing.
Signal(t, code, message) ==
    /\ Idle(t)
    /\ queue_lock = 0
    /\ queue_lock' = t
    /\ pc' = [pc EXCEPT ![t] = "signal_store"]
    /\ loc' = [loc EXCEPT ![t] = [NoLoc EXCEPT !.code = code, !.message = message]]
    /\ hist' = [hist EXCEPT ![t] = Enter("signal")]
    /\ UNCHANGED <<listeners, lists, last_message, message_queue,
                   is_queue_processing, prev, latest>>

\* self.message_queue[code] = message
SignalStore(t) ==
    /\ pc[t] = "signal_store"
    /\ message_queue' = QueuePut(message_queue, loc[t].code, loc[t].message)
    /\ prev' = [prev EXCEPT ![loc[t].code] = latest[loc[t].code]]
    /\ latest' = [latest EXCEPT ![loc[t].code] = loc[t].message]
    /\ pc' = [pc EXCEPT ![t] = "signal_release"]
    /\ UNCHANGED <<listeners, lists, last_message, queue_lock,
                   is_queue_processing, loc, hist>>

\* self.queue_lock.release()
SignalRelease(t) ==
    /\ pc[t] = "signal_release"
    /\ queue_lock' = 0
    /\ pc' = [pc EXCEPT ![t] = "return"]
    /\ loc' = [loc EXCEPT ![t] = NoLoc]
    /\ UNCHANGED <<listeners, lists, last_message, message_queue,
                   is_queue_processing, hist, prev, latest>>

\* ------------------------------------------- delegate_messages, flush
\* Kernel.delegate_messages(): returns at once while a flush is in progress,
\* else runs process_queue through run_later (by default a direct call).
DelegateMessages(t) ==
    /\ Idle(t)
    /\ loc' = [loc EXCEPT ![t] = NoLoc]
    /\ IF is_queue_processing
       THEN /\ pc' = [pc EXCEPT ![t] = "return"]
            /\ hist' = [hist EXCEPT ![t] = Enter("delegate_skipped")]
       ELSE /\ pc' = [pc EXCEPT ![t] = "pq_begin"]
            /\ hist' = [hist EXCEPT ![t] =
                           [Enter("process_queue") EXCEPT !.unsub = hist[t].unsub]]
    /\ UNCHANGED <<listeners, lists, last_message, message_queue, queue_lock,
                   is_queue_processing, prev, latest>>

\* self.is_queue_processing = True
PqBegin(t) ==
    /\ pc[t] = "pq_begin"
    /\ is_queue_processing' = TRUE
    /\ pc' = [pc EXCEPT ![t] = "pq_acquire"]
    /\ UNCHANGED <<listeners, lists, last_message, message_queue, queue_lock,
                   loc, hist, prev, latest>>

\* self.queue_lock.acquire(True)
PqAcquire(t) ==
    /\ pc[t] = "pq_acquire"
    /\ queue_lock = 0
    /\ queue_lock' = t
    /\ pc' = [pc EXCEPT ![t] = "pq_swap"]
    /\ UNCHANGED <<listeners, lists, last_message, message_queue,
                   is_queue_processing, loc, hist, prev, latest>>

\* A swap that would take the pending map without replacing it.
PqSwap_KeepsPending(t) ==
    /\ pc[t] = "pq_swap"
    /\ loc' = [loc EXCEPT ![t].queue = message_queue]
    /\ message_queue' = message_queue
    /\ hist' = [hist EXCEPT ![t].bPrev = prev, ![t].bLatest = latest, ![t].swapped = TRUE]
    /\ prev' = [k \in Topics |-> None]
    /\ latest' = [k \in Topics |-> None]
    /\ pc' = [pc EXCEPT ![t] = "pq_release"]
    /\ UNCHANGED <<listeners, lists, last_message, queue_lock, is_queue_processing>>

\* queue = self.message_queue; self.message_queue = {}
PqSwap(t) ==
    /\ pc[t] = "pq_swap"
    /\ loc' = [loc EXCEPT ![t].queue = message_queue]
    /\ message_queue' = <<>>
    /\ hist' = [hist EXCEPT ![t].bPrev = prev, ![t].bLatest = latest, ![t].swapped = TRUE]
    /\ prev' = [k \in Topics |-> None]
    /\ latest' = [k \in Topics |-> None]
    /\ pc' = [pc EXCEPT ![t] = "pq_release"]
    /\ UNCHANGED <<listeners, lists, last_message, queue_lock, is_queue_processing>>

\* A process_queue that would keep the lock while it calls the listeners.
PqRelease_KeepsLock(t) ==
    /\ pc[t] = "pq_release"
    /\ queue_lock' = queue_lock
    /\ loc' = [loc EXCEPT ![t].qi = 1]
    /\ pc' = [pc EXCEPT ![t] = "pq_item"]
    /\ UNCHANGED <<listeners, lists, last_message, message_queue,
                   is_queue_processing, hist, prev, latest>>

\* self.queue_lock.release()
PqRelease(t) ==
    /\ pc[t] = "pq_release"
    /\ queue_lock' = 0
    /\ loc' = [loc EXCEPT ![t].qi = 1]
    /\ pc' = [pc EXCEPT ![t] = "pq_item"]
    /\ UNCHANGED <<listeners, lists, last_message, message_queue,
                   is_queue_processing, hist, prev, latest>>

\* for code, message in queue.items(): if code in self.listeners:
\*     listeners = self.listeners[code]
PqItem(t) ==
    /\ pc[t] = "pq_item"
    /\ IF loc[t].qi > Len(loc[t].queue)
       THEN /\ pc' = [pc EXCEPT ![t] = "pq_end"]
            /\ loc' = loc
       ELSE LET code == loc[t].queue[loc[t].qi][1]
                message == loc[t].queue[loc[t].qi][2]
            IN  IF Has(listeners, code)
                THEN /\ loc' = [loc EXCEPT ![t].code = code, ![t].message = message,
                                           ![t].ref = listeners[code], ![t].li = 1]
                     /\ pc' = [pc EXCEPT ![t] = "pq_listener"]
                ELSE /\ loc' = [loc EXCEPT ![t].code = code, ![t].message = message]
                     /\ pc' = [pc EXCEPT ![t] = "pq_last"]
    /\ UNCHANGED <<listeners, lists, last_message, message_queue, queue_lock,
                   is_queue_processing, hist, prev, latest>>

\* The listener the loop of line 197 is about to call raises.
ListenerFaults(t) ==
    /\ loc[t].li <= Len(lists[loc[t].ref])
    /\ lists[loc[t].ref][loc[t].li] \in FaultyFns

\* self.run_later(listener, message) with a listener that raises: nothing in
\* process_queue or delegate_messages catches, so the exception leaves both,
\* and line 200 is not reached: is_queue_processing stays True.
PqListenerRaises(t) ==
    /\ pc[t] = "pq_listener"
    /\ ListenerFaults(t)
    /\ hist' = [hist EXCEPT ![t].calls =
                    Append(@, <<loc[t].code, lists[loc[t].ref][loc[t].li],
                                loc[t].message>>),
                             ![t].raised = "Exception"]
    /\ loc' = [loc EXCEPT ![t] = NoLoc]
    /\ pc' = [pc EXCEPT ![t] = "return"]
    /\ UNCHANGED <<listeners, lists, last_message, message_queue, queue_lock,
                   is_queue_processing, prev, latest>>

\* The listener the loop of line 197 is about to call is one that calls
\* kernel.signal(CbTopic, CbValue).
ListenerEmits(t) ==
    /\ loc[t].li <= Len(lists[loc[t].ref])
    /\ lists[loc[t].ref][loc[t].li] \in EmitterFns

\* self.run_later(listener, message) with such a listener: the listener is
\* entered and reaches its call of signal().
PqListenerEmits(t) ==
    /\ pc[t] = "pq_listener"
    /\ ListenerEmits(t)
    /\ hist' = [hist EXCEPT ![t].calls =
                    Append(@, <<loc[t].code, lists[loc[t].ref][loc[t].li],
                                loc[t].message>>)]
    /\ pc' = [pc EXCEPT ![t] = "cb_signal"]
    /\ UNCHANGED <<listeners, lists, last_message, message_queue, queue_lock,
                   is_queue_processing, loc, prev, latest>>

\* for listener in listeners: self.run_later(listener, message)
\* The list iterator is an index into the live list object.
PqListener(t) ==
    /\ pc[t] = "pq_listener"
    /\ ~ListenerFaults(t)
    /\ ~ListenerEmits(t)
    /\ IF loc[t].li <= Len(lists[loc[t].ref])
       THEN /\ hist' = [hist EXCEPT ![t].calls =
                           Append(@, <<loc[t].code, lists[loc[t].ref][loc[t].li],
                                       loc[t].message>>)]
            /\ loc' = [loc EXCEPT ![t].li = @ + 1]
            /\ pc' = pc
       ELSE /\ pc' = [pc EXCEPT ![t] = "pq_last"]
            /\ UNCHANGED <<loc, hist>>
    /\ UNCHANGED <<listeners, lists, last_message, message_queue, queue_lock,
                   is_queue_processing, prev, latest>>

\* self.last_message[code] = message
PqLast(t) ==
    /\ pc[t] = "pq_last"
    /\ last_message' = DictSet(last_message, loc[t].code, loc[t].message)
    /\ loc' = [loc EXCEPT ![t].qi = @ + 1]
    /\ pc' = [pc EXCEPT ![t] = "pq_item"]
    /\ UNCHANGED <<listeners, lists, message_queue, queue_lock,
                   is_queue_processing, hist, prev, latest>>

\* self.is_queue_processing = False
PqEnd(t) ==
    /\ pc[t] = "pq_end"
    /\ is_queue_processing' = FALSE
    /\ pc' = [pc EXCEPT ![t] = "return"]
    /\ loc' = [loc EXCEPT ![t] = NoLoc]
    /\ UNCHANGED <<listeners, lists, last_message, message_queue, queue_lock,
                   hist, prev, latest>>

\* ------------------------------------------------------------ listen
\* Kernel.listen(signal, function): if signal in self.listeners
Listen(t, signal, function) ==
    /\ Idle(t)
    /\ Subscriptions < MaxSubs
    /\ loc' = [loc EXCEPT ![t] = [NoLoc EXCEPT !.code = signal, !.function = function]]
    /\ hist' = [hist EXCEPT ![t] = EnterWith("listen", signal, function)]
    /\ pc' = [pc EXCEPT ![t] = IF Has(listeners, signal) THEN "listen_get" ELSE "listen_new"]
    /\ UNCHANGED <<listeners, lists, last_message, message_queue, queue_lock,
                   is_queue_processing, prev, latest>>

\* listeners = self.listeners[signal]
ListenGet(t) ==
    /\ pc[t] = "listen_get"
    /\ loc' = [loc EXCEPT ![t].ref = listeners[loc[t].code]]
    /\ pc' = [pc EXCEPT ![t] = "listen_append"]
    /\ UNCHANGED <<listeners, lists, last_message, message_queue, queue_lock,
                   is_queue_processing, hist, prev, latest>>

\* listeners.append(function)
ListenAppend(t) ==
    /\ pc[t] = "listen_append"
    /\ lists' = [lists EXCEPT ![loc[t].ref] = Append(@, loc[t].function)]
    /\ pc' = [pc EXCEPT ![t] = "listen_check"]
    /\ UNCHANGED <<listeners, last_message, message_queue, queue_lock,
                   is_queue_processing, loc, hist, prev, latest>>

\* self.listeners[signal] = [function]
ListenNew(t) ==
    /\ pc[t] = "listen_new"
    /\ lists' = DictSet(lists, NewRef(loc[t].code), <<loc[t].function>>)
    /\ listeners' = DictSet(listeners, loc[t].code, NewRef(loc[t].code))
    /\ pc' = [pc EXCEPT ![t] = "listen_check"]
    /\ UNCHANGED <<last_message, message_queue, queue_lock,
                   is_queue_processing, loc, hist, prev, latest>>

\* A listen() that would never look at last_message: no replay.
ListenCheck_NoReplay(t) ==
    /\ pc[t] = "listen_check"
    /\ loc' = [loc EXCEPT ![t] = NoLoc]
    /\ pc' = [pc EXCEPT ![t] = "return"]
    /\ UNCHANGED <<listeners, lists, last_message, message_queue, queue_lock,
                   is_queue_processing, hist, prev, latest>>

\* if signal in self.last_message: last_message = self.last_message[signal]
ListenCheck(t) ==
    /\ pc[t] = "listen_check"
    /\ IF Has(last_message, loc[t].code)
       THEN /\ loc' = [loc EXCEPT ![t].message = last_message[loc[t].code]]
            /\ pc' = [pc EXCEPT ![t] = "listen_call"]
       ELSE /\ loc' = [loc EXCEPT ![t] = NoLoc]
            /\ pc' = [pc EXCEPT ![t] = "return"]
    /\ UNCHANGED <<listeners, lists, last_message, message_queue, queue_lock,
                   is_queue_processing, hist, prev, latest>>

\* function(last_message) with a function that calls signal()
ListenCallEmits(t) ==
    /\ pc[t] = "listen_call"
    /\ loc[t].function \in EmitterFns
    /\ hist' = [hist EXCEPT ![t].calls =
                   Append(@, <<loc[t].code, loc[t].function, loc[t].message>>)]
    /\ pc' = [pc EXCEPT ![t] = "cb_signal"]
    /\ UNCHANGED <<listeners, lists, last_message, message_queue, queue_lock,
                   is_queue_processing, loc, prev, latest>>

\* function(last_message)
ListenCall(t) ==
    /\ pc[t] = "listen_call"
    /\ loc[t].function \notin EmitterFns
    /\ hist' = [hist EXCEPT ![t].calls =
                   Append(@, <<loc[t].code, loc[t].function, loc[t].message>>),
                             ![t].raised = IF loc[t].function \in FaultyFns
                                           THEN "Exception" ELSE @]
    /\ pc' = [pc EXCEPT ![t] = "return"]
    /\ loc' = [loc EXCEPT ![t] = NoLoc]
    /\ UNCHANGED <<listeners, lists, last_message, message_queue, queue_lock,
                   is_queue_processing, prev, latest>>

\* ------------------------------------------- signal() inside a listener
\* Kernel.signal(CbTopic, CbValue) called by thread t from inside a listener:
\* self.queue_lock.acquire(True).  threading.Lock is not re-entrant: the call
\* waits here for as long as anybody, thread t included, holds the lock.
CbSignal(t) ==
    /\ pc[t] = "cb_signal"
    /\ queue_lock = 0
    /\ queue_lock' = t
    /\ pc' = [pc EXCEPT ![t] = "cb_store"]
    /\ UNCHANGED <<listeners, lists, last_message, message_queue,
                   is_queue_processing, loc, hist, prev, latest>>

\* self.message_queue[code] = message
CbStore(t) ==
    /\ pc[t] = "cb_store"
    /\ message_queue' = QueuePut(message_queue, CbTopic, CbValue)
    /\ prev' = [prev EXCEPT ![CbTopic] = latest[CbTopic]]
    /\ latest' = [latest EXCEPT ![CbTopic] = CbValue]
    /\ pc' = [pc EXCEPT ![t] = "cb_release"]
    /\ UNCHANGED <<listeners, lists, last_message, queue_lock,
                   is_queue_processing, loc, hist>>

\* self.queue_lock.release(); the listener returns to the loop of line 197,
\* or to listen(), whose last statement the call was.
CbRelease(t) ==
    /\ pc[t] = "cb_release"
    /\ queue_lock' = 0
    /\ IF hist[t].op = "process_queue"
       THEN /\ pc' = [pc EXCEPT ![t] = "pq_listener"]
            /\ loc' = [loc EXCEPT ![t].li = @ + 1]
       ELSE /\ pc' = [pc EXCEPT ![t] = "return"]
            /\ loc' = [loc EXCEPT ![t] = NoLoc]
    /\ UNCHANGED <<listeners, lists, last_message, message_queue,
                   is_queue_processing, hist, prev, latest>>

\* ---------------------------------------------------------- unlisten
\* Kernel.unlisten(listener, code): the first positional argument is bound to
\* `listener`, the second to `code`.  if code in self.listeners
Unlisten(t, listener, code) ==
    /\ Idle(t)
    /\ loc' = [loc EXCEPT ![t] = IF Has(listeners, code)
                                  THEN [NoLoc EXCEPT !.function = listener, !.code = code]
                                  ELSE NoLoc]
    /\ hist' = [hist EXCEPT ![t] = EnterWith("unlisten", listener, code)]
    /\ pc' = [pc EXCEPT ![t] = IF Has(listeners, code) THEN "unlisten_get" ELSE "return"]
    /\ UNCHANGED <<listeners, lists, last_message, message_queue, queue_lock,
                   is_queue_processing, prev, latest>>

\* listeners = self.listeners[code]
UnlistenGet(t) ==
    /\ pc[t] = "unlisten_get"
    /\ loc' = [loc EXCEPT ![t].ref = listeners[loc[t].code]]
    /\ pc' = [pc EXCEPT ![t] = "unlisten_remove"]
    /\ UNCHANGED <<listeners, lists, last_message, message_queue, queue_lock,
                   is_queue_processing, hist, prev, latest>>

\* listeners.remove(listener): ValueError when listener is not in the list
UnlistenRemove(t) ==
    /\ pc[t] = "unlisten_remove"
    /\ IF InList(lists[loc[t].ref], loc[t].function)
       THEN /\ lists' = [lists EXCEPT ![loc[t].ref] = ListRemove(@, loc[t].function)]
            /\ hist' = hist
       ELSE /\ lists' = lists
            /\ hist' = [hist EXCEPT ![t].raised = "ValueError"]
    /\ pc' = [pc EXCEPT ![t] = "return"]
    /\ loc' = [loc EXCEPT ![t] = NoLoc]
    /\ UNCHANGED <<listeners, last_message, message_queue, queue_lock,
                   is_queue_processing, prev, latest>>

\* Kernel.__setitem__(key, value) with a tuple key: key, value = key, then
\* self.unlisten(key, value) when value is None, else self.listen(key, value).
SetItem(t, k0, k1, value) ==
    IF value = None THEN Unlisten(t, k0, k1) ELSE Listen(t, k0, k1)

\* The call of thread t has returned and its caller goes on.  Of what the call
\* did, the caller keeps whether it has just unsubscribed a listener.
Return(t) ==
    /\ pc[t] = "return"
    /\ pc' = [pc EXCEPT ![t] = "idle"]
    /\ hist' = [hist EXCEPT ![t] =
                   [NoHist EXCEPT !.unsub = IF UnsubscribedOnce(hist[t])
                                            THEN <<hist[t].a, hist[t].b>>
                                            ELSE <<None, None>>]]
    /\ UNCHANGED <<listeners, lists, last_message, message_queue, queue_lock,
                   is_queue_processing, loc, prev, latest>>

\* Nothing signalled by the concurrent emitters, nothing delivered; recent is
\* the value each listener was last invoked with.
NoConc == [value |-> [t \in Threads |-> None], delivered |-> <<>>, final |-> FALSE,
           recent |-> [f \in Fns |-> None]]

\* Kernel.__init__: empty maps, a free lock, no flush in progress.
InitKernelBus ==
    /\ listeners = EmptyDict
    /\ lists = EmptyDict
    /\ last_message = EmptyDict
    /\ message_queue = <<>>
    /\ queue_lock = 0
    /\ is_queue_processing = FALSE
    /\ pc = [t \in AllThreads |-> "idle"]
    /\ loc = [t \in AllThreads |-> NoLoc]
    /\ hist = [t \in AllThreads |-> NoHist]
    /\ prev = [k \in Topics |-> None]
    /\ latest = [k \in Topics |-> None]
    /\ conc = NoConc

\* ------------------------------------------------ lifecycle registry
ModuleNames == {"M1", "M2"}

Ops == {"start", "resume", "pause", "abort", "reset", "stop"}

\* The module classes a caller registers, each given by the lifecycle
\* methods it defines: a pure data module, a spooler-like module, a full one.
ModuleClasses == {{}, {"start", "stop"}, Ops}

NoLife == [op |-> "none", name |-> None, raised |-> "none",
           preModules |-> EmptyDict, preState |-> EmptyDict]

\* Kernel.__init__: self.modules = {}
InitKernelModules ==
    /\ modules = EmptyDict
    /\ mstate = EmptyDict
    /\ life = NoLife

\* Kernel.add_module(module_name, module): self.modules[module_name] = module,
\* then module.initialize(self) with AttributeError swallowed.
AddModule(module_name, module) ==
    /\ modules' = DictSet(modules, module_name, module)
    /\ mstate' = DictSet(mstate, module_name, "new")
    /\ life' = NoLife

\* try: self.modules[thread_name].<op>()  except AttributeError: pass
\* The subscript raises KeyError for a name that is not in the dict; a module
\* without the method raises AttributeError, which is swallowed.
KernelOp(op, thread_name) ==
    /\ life' = [NoLife EXCEPT !.op = op, !.name = thread_name,
                              !.preModules = modules, !.preState = mstate,
                              !.raised = IF Has(modules, thread_name)
                                         THEN "none" ELSE "KeyError"]
    /\ mstate' = IF Has(modules, thread_name) /\ op \in modules[thread_name]
                 THEN [mstate EXCEPT ![thread_name] = op]
                 ELSE mstate
    /\ modules' = modules

KernelStart(thread_name) == KernelOp("start", thread_name)

KernelResume(thread_name) == KernelOp("resume", thread_name)

KernelPause(thread_name) == KernelOp("pause", thread_name)

KernelAbort(thread_name) == KernelOp("abort", thread_name)

KernelReset(thread_name) == KernelOp("reset", thread_name)

KernelStop(thread_name) == KernelOp("stop", thread_name)

\* ---------------------------------------------------------- scheduler
THREAD_STATE_UNSTARTED == 0
THREAD_STATE_STARTED == 1
THREAD_STATE_PAUSED == 2
THREAD_STATE_FINISHED == 3
THREAD_STATE_ABORT == 10

\* Durations in units of 50 ms: time.sleep(0.1), time.sleep(1.0), interval=0.05.
PollSleep == 2
PauseSleep == 20
FlushInterval == 1

\* The intervals and run counts callers register jobs with; <<>> is None.
JobIntervals == {1, 3}
JobTimes == {<<>>} \cup {<<n>> : n \in 1 .. MaxTimes}

\* No call of shutdown() yet.  size: the length of the dict when the loop
\* that is running began; todo: modules the loop has yet to reach; ti: the
\* iterator over self.threads; aliveAtReturn: the registered threads that
\* were alive when shutdown() returned.
NoShutdown == [pc |-> "idle", raised |-> "none", todo |-> {}, size |-> 0, ti |-> 0,
               thread |-> None, log |-> <<>>, aliveAtReturn |-> {}]

\* The worker has not run yet and no job was executed.
NoClock == [t |-> 0, n |-> EmptyDict]

\* Kernel.__init__: self.cron = None.  wpc = "none" while there is no Scheduler.
InitKernelCron ==
    /\ state = THREAD_STATE_UNSTARTED
    /\ jobs = <<>>
    /\ job = EmptyDict
    /\ wpc = "none"
    /\ ji = 0
    /\ cur = 0
    /\ wsleep = 0
    /\ runs = EmptyDict
    /\ pauseReq = "none"
    /\ threads = <<>>
    /\ alive = EmptyDict
    /\ sd = NoShutdown
    /\ clock = NoClock

\* KernelJob.__init__: last_run = time.time(); next_run = last_run + interval.
\* next_run is kept as the time left until it is reached, <<>> is None.
KernelJob(process, interval, times) ==
    [process |-> process, interval |-> interval, next_run |-> <<interval>>,
     times |-> times, paused |-> FALSE]

\* KernelJob.scheduled: next_run is not None and time.time() >= next_run
Scheduled(j) == job[j].next_run # <<>> /\ job[j].next_run[1] = 0

\* Scheduler.add_job(run, args, interval, times)
AddJob(process, interval, times) ==
    /\ wpc # "none"
    /\ Cardinality(DOMAIN job) < 1 + MaxJobs
    /\ LET id == Cardinality(DOMAIN job) + 1
       IN  /\ job' = DictSet(job, id, KernelJob(process, interval, times))
           /\ jobs' = Append(jobs, id)
           /\ runs' = DictSet(runs, id, [n |-> times, done |-> 0])
    /\ UNCHANGED <<threads, state, wpc, ji, cur, wsleep, pauseReq>>

\* self.threads[thread_name] = object on an insertion-ordered dict
ThreadsPut(d, thread_name) == IF InList(d, thread_name) THEN d ELSE Append(d, thread_name)

\* Kernel.boot(): self.cron = Scheduler(self); the flush job is added with
\* interval=0.05; self.add_thread('Scheduler', self.cron).
BootCreate ==
    /\ wpc = "none"
    /\ wpc' = "unstarted"
    /\ state' = THREAD_STATE_UNSTARTED
    /\ job' = DictSet(job, 1, KernelJob("delegate_messages", FlushInterval, <<>>))
    /\ jobs' = <<1>>
    /\ runs' = DictSet(runs, 1, [n |-> <<>>, done |-> 0])
    /\ threads' = ThreadsPut(threads, "Scheduler")
    /\ UNCHANGED <<ji, cur, wsleep, pauseReq>>

\* self.cron.start(): the thread will run Scheduler.run.
BootStart ==
    /\ wpc = "unstarted"
    /\ wpc' = "start"
    /\ UNCHANGED <<threads, state, jobs, job, ji, cur, wsleep, runs, pauseReq>>

\* The worker is in a pass over the jobs, past the pause check of line 61.
InCycle == wpc \in {"for", "scheduled", "job_run", "process", "in_process", "resched"}

\* Scheduler.pause(): self.state = THREAD_STATE_PAUSED
SchedulerPause ==
    /\ wpc # "none"
    /\ state' = THREAD_STATE_PAUSED
    /\ pauseReq' = IF InCycle THEN "mid_cycle" ELSE "between"
    /\ UNCHANGED <<threads, jobs, job, wpc, ji, cur, wsleep, runs>>

\* Scheduler.resume(): self.state = THREAD_STATE_STARTED
SchedulerResume ==
    /\ wpc # "none"
    /\ state' = THREAD_STATE_STARTED
    /\ pauseReq' = "none"
    /\ UNCHANGED <<threads, jobs, job, wpc, ji, cur, wsleep, runs>>

\* The worker is inside the wait of lines 61-62 and the run-state is Paused.
WaitingPaused == wpc = "pause_sleep" /\ state = THREAD_STATE_PAUSED

\* Scheduler.stop(): self.state = THREAD_STATE_ABORT
\* pauseReq records that this stop() found the worker waiting in the pause.
SchedulerStop ==
    /\ wpc # "none"
    /\ state' = THREAD_STATE_ABORT
    /\ pauseReq' = IF WaitingPaused THEN "stopped_waiting" ELSE pauseReq
    /\ UNCHANGED <<threads, jobs, job, wpc, ji, cur, wsleep, runs>>

\* Scheduler.run, line 56: self.state = THREAD_STATE_STARTED
WStart ==
    /\ wpc = "start"
    /\ state' = THREAD_STATE_STARTED
    /\ wpc' = "loop"
    /\ UNCHANGED <<threads, jobs, job, ji, cur, wsleep, runs, pauseReq>>

\* line 57: while self.state != THREAD_STATE_ABORT: time.sleep(0.1) begins
WLoop ==
    /\ wpc = "loop"
    /\ IF state # THREAD_STATE_ABORT
       THEN wpc' = "sleep" /\ wsleep' = PollSleep
       ELSE wpc' = "finish" /\ wsleep' = wsleep
    /\ UNCHANGED <<threads, state, jobs, job, ji, cur, runs, pauseReq>>

\* line 58: time.sleep(0.1) ends
WSleep ==
    /\ wpc = "sleep"
    /\ wsleep = 0
    /\ wpc' = "check_abort"
    /\ UNCHANGED <<threads, state, jobs, job, ji, cur, wsleep, runs, pauseReq>>

\* lines 59-60: if self.state == THREAD_STATE_ABORT: return
WCheckAbort ==
    /\ wpc = "check_abort"
    /\ wpc' = IF state = THREAD_STATE_ABORT THEN "exited" ELSE "check_pause"
    /\ UNCHANGED <<threads, state, jobs, job, ji, cur, wsleep, runs, pauseReq>>

\* A worker that would not look at the Paused state.
WCheckPause_Ignored ==
    /\ wpc = "check_pause"
    /\ wpc' = "for" /\ wsleep' = wsleep /\ ji' = 1
    /\ UNCHANGED <<threads, state, jobs, job, cur, runs, pauseReq>>

\* line 61: while self.state == THREAD_STATE_PAUSED: time.sleep(1.0) begins;
\* else the for loop of line 63 gets its iterator.
WCheckPause ==
    /\ wpc = "check_pause"
    /\ IF state = THREAD_STATE_PAUSED
       THEN wpc' = "pause_sleep" /\ wsleep' = PauseSleep /\ ji' = ji
       ELSE wpc' = "for" /\ wsleep' = wsleep /\ ji' = 1
    /\ UNCHANGED <<threads, state, jobs, job, cur, runs, pauseReq>>

\* line 62: time.sleep(1.0) ends
WPauseSleep ==
    /\ wpc = "pause_sleep"
    /\ wsleep = 0
    /\ wpc' = "check_pause"
    /\ UNCHANGED <<threads, state, jobs, job, ji, cur, wsleep, runs, pauseReq>>

\* line 63: for job in self.jobs: the iterator reads the live list at its
\* index; when the index is past the end the pass is over.
WFor ==
    /\ wpc = "for"
    /\ IF ji <= Len(jobs)
       THEN /\ cur' = jobs[ji]
            /\ ji' = ji + 1
            /\ wpc' = "scheduled"
            /\ pauseReq' = pauseReq
       ELSE /\ cur' = 0
            /\ ji' = 0
            /\ wpc' = "loop"
            /\ pauseReq' = IF pauseReq = "mid_cycle" THEN "between" ELSE pauseReq
    /\ UNCHANGED <<threads, state, jobs, job, wsleep, runs>>

\* line 64: if job.scheduled:
WScheduled ==
    /\ wpc = "scheduled"
    /\ wpc' = IF Scheduled(cur) THEN "job_run" ELSE "for"
    /\ UNCHANGED <<threads, state, jobs, job, ji, cur, wsleep, runs, pauseReq>>

\* A test that would let the job run once more than its count.
Exhausted_Late(times) == times < 0

\* if self.times <= 0, with self.times already decremented
Exhausted(times) == times <= 0

\* KernelJob.run, lines 30-37: return if paused; next_run = None; a finite
\* count is decremented and the job removes itself from scheduler.jobs when
\* the count is used up.
JobRun ==
    /\ wpc = "job_run"
    /\ IF job[cur].paused
       THEN /\ wpc' = "for"
            /\ UNCHANGED <<job, jobs>>
       ELSE /\ wpc' = "process"
            /\ IF job[cur].times # <<>>
               THEN /\ job' = [job EXCEPT ![cur].next_run = <<>>,
                                          ![cur].times = <<job[cur].times[1] - 1>>]
                    /\ jobs' = IF Exhausted(job[cur].times[1] - 1)
                               THEN ListRemove(jobs, cur) ELSE jobs
               ELSE /\ job' = [job EXCEPT ![cur].next_run = <<>>]
                    /\ jobs' = jobs
    /\ UNCHANGED <<threads, state, ji, cur, wsleep, runs, pauseReq>>

\* line 38: self.process(*self.args), a work item other than the flush
JobProcessWork ==
    /\ wpc = "process"
    /\ job[cur].process = "work"
    /\ runs' = [runs EXCEPT ![cur].done = IF job[cur].times # <<>> THEN @ + 1 ELSE @]
    /\ wpc' = "resched"
    /\ UNCHANGED <<threads, state, jobs, job, ji, cur, wsleep, pauseReq>>

\* line 38 for the flush job: self.process is Kernel.delegate_messages, which
\* the worker enters; the flush itself is the worker's steps on the bus.
JobProcessFlush ==
    /\ wpc = "process"
    /\ job[cur].process = "delegate_messages"
    /\ DelegateMessages(Worker)
    /\ wpc' = "in_process"
    /\ UNCHANGED <<threads, state, jobs, job, ji, cur, wsleep, runs, pauseReq>>

\* line 38 with a work item that raises: neither KernelJob.run nor
\* Scheduler.run catches, so the exception ends run() and with it the thread.
\* The state is left as it was, and next_run is still None.
JobProcessRaises ==
    /\ wpc = "process"
    /\ job[cur].process = "faulty"
    /\ wpc' = "crashed"
    /\ UNCHANGED <<threads, state, jobs, job, ji, cur, wsleep, runs, pauseReq>>

\* The flush job's delegate_messages was left by an exception of a listener:
\* the same end of run().
JobProcessFlushRaises ==
    /\ wpc = "in_process"
    /\ hist[Worker].raised # "none"
    /\ Return(Worker)
    /\ wpc' = "crashed"
    /\ UNCHANGED <<threads, state, jobs, job, ji, cur, wsleep, runs, pauseReq>>

\* delegate_messages has returned to KernelJob.run
JobProcessReturn ==
    /\ wpc = "in_process"
    /\ hist[Worker].raised = "none"
    /\ Return(Worker)
    /\ wpc' = "resched"
    /\ UNCHANGED <<threads, state, jobs, job, ji, cur, wsleep, runs, pauseReq>>

\* lines 39-40: last_run = time.time(); next_run = last_run + interval
JobResched ==
    /\ wpc = "resched"
    /\ job' = [job EXCEPT ![cur].next_run = <<job[cur].interval>>]
    /\ wpc' = "for"
    /\ UNCHANGED <<threads, state, jobs, ji, cur, wsleep, runs, pauseReq>>

\* line 66: self.state = THREAD_STATE_FINISHED, and run() returns
WFinish ==
    /\ wpc = "finish"
    /\ state' = THREAD_STATE_FINISHED
    /\ wpc' = "exited"
    /\ UNCHANGED <<threads, jobs, job, ji, cur, wsleep, runs, pauseReq>>

\* 50 ms pass: every time.sleep() in progress and every next_run is 50 ms
\* nearer.
Tick ==
    /\ wsleep > 0 \/ \E j \in DOMAIN job : job[j].next_run # <<>> /\ job[j].next_run[1] > 0
    /\ wsleep' = IF wsleep > 0 THEN wsleep - 1 ELSE 0
    /\ job' = [j \in DOMAIN job |->
                 IF job[j].next_run # <<>> /\ job[j].next_run[1] > 0
                 THEN [job[j] EXCEPT !.next_run = <<job[j].next_run[1] - 1>>]
                 ELSE job[j]]
    /\ UNCHANGED <<threads, state, jobs, wpc, ji, cur, runs, pauseReq>>

\* ------------------------------------------------- jobs, never paused
\* The scheduler is booted and runs; callers register jobs; nobody pauses or
\* stops it and no signal is emitted.  Time passes, the thread in boot()
\* and the worker thread are scheduled: these are weakly fair.
otherThanSched == <<lifeVars, regVars, listeners, lists, last_message, message_queue,
                    queue_lock, is_queue_processing, pc, loc, hist, prev, latest>>

\* boot() goes on from its first statement to its second.
JobsBootStart == BootStart /\ UNCHANGED otherThanSched

JobsCall ==
    \/ BootCreate /\ UNCHANGED otherThanSched
    \/ \E i \in JobIntervals, n \in JobTimes :
          AddJob("work", i, n) /\ UNCHANGED otherThanSched

JobsWorker ==
    \/ WStart /\ UNCHANGED otherThanSched
    \/ WLoop /\ UNCHANGED otherThanSched
    \/ WSleep /\ UNCHANGED otherThanSched
    \/ WCheckAbort /\ UNCHANGED otherThanSched
    \/ WCheckPause /\ UNCHANGED otherThanSched
    \/ WFor /\ UNCHANGED otherThanSched
    \/ WScheduled /\ UNCHANGED otherThanSched
    \/ JobRun /\ UNCHANGED otherThanSched
    \/ JobProcessWork /\ UNCHANGED otherThanSched
    \/ JobProcessFlush /\ UNCHANGED <<lifeVars, regVars>>
    \/ PqBegin(Worker) /\ UNCHANGED nonBusVars
    \/ PqAcquire(Worker) /\ UNCHANGED nonBusVars
    \/ PqSwap(Worker) /\ UNCHANGED nonBusVars
    \/ PqRelease(Worker) /\ UNCHANGED nonBusVars
    \/ PqItem(Worker) /\ UNCHANGED nonBusVars
    \/ PqEnd(Worker) /\ UNCHANGED nonBusVars
    \/ JobProcessReturn /\ UNCHANGED <<lifeVars, regVars>>
    \/ JobResched /\ UNCHANGED otherThanSched

JobsTick == Tick /\ UNCHANGED otherThanSched

NextJobs == JobsCall \/ JobsBootStart \/ JobsWorker \/ JobsTick

InitJobs == InitKernelBus /\ InitKernelModules /\ InitKernelCron

SpecJobs ==
    /\ InitJobs
    /\ [][NextJobs]_vars
    /\ WF_vars(JobsBootStart)
    /\ WF_vars(JobsWorker)
    /\ WF_vars(JobsTick)

JobIds == 1 .. (1 + MaxJobs)

FiniteJob(j) == j \in DOMAIN runs /\ runs[j].n # <<>>

InvokedNTimes(j) == FiniteJob(j) /\ runs[j].done = runs[j].n[1]

\* C5: a job registered with a finite count N >= 1 is invoked N times and no
\* more in a run that is never paused or stopped: the number of invocations
\* never exceeds N, it reaches N, and from the N-th invocation on the job is
\* not in the scheduler's list of jobs.
C5_ExactlyNTimes ==
    \A j \in JobIds :
        /\ [](FiniteJob(j) => /\ runs[j].done <= runs[j].n[1]
                              /\ InvokedNTimes(j) => ~InList(jobs, j))
        /\ [](FiniteJob(j) => <>InvokedNTimes(j))

C5_Witness ==
    \E j \in DOMAIN runs :
        /\ runs[j].n = <<MaxTimes>>
        /\ runs[j].done = MaxTimes
        /\ ~InList(jobs, j)
        /\ wpc = "sleep"

\* ------------------------------------- scheduler with pause and stop
\* The scheduler with its controls: callers boot it, register jobs, pause,
\* resume and stop it at any moment, emit signals and subscribe; the worker
\* runs Scheduler.run and, in the flush job, the bus.
\* Here callers use one topic, one listener and one value, and register
\* SchedJobs jobs of the flush job's period, unlimited or for one run.
SchedTopic == "a"
SchedFn == "f"
SchedValues == {"v1"}
SchedIntervals == {FlushInterval}
SchedTimes == {<<>>, <<1>>}

SchedCall ==
    \/ BootCreate /\ UNCHANGED otherThanSched
    \/ BootStart /\ UNCHANGED otherThanSched
    \/ \E i \in SchedIntervals, n \in SchedTimes :
          /\ Cardinality(DOMAIN job) < 1 + SchedJobs
          /\ AddJob("work", i, n)
          /\ UNCHANGED otherThanSched
    \/ SchedulerPause /\ UNCHANGED otherThanSched
    \/ SchedulerResume /\ UNCHANGED otherThanSched
    \/ SchedulerStop /\ UNCHANGED otherThanSched
    \/ \E v \in SchedValues : Signal(1, SchedTopic, v) /\ UNCHANGED nonBusVars
    \/ SignalStore(1) /\ UNCHANGED nonBusVars
    \/ SignalRelease(1) /\ UNCHANGED nonBusVars
    \/ Listen(1, SchedTopic, SchedFn) /\ UNCHANGED nonBusVars
    \/ ListenGet(1) /\ UNCHANGED nonBusVars
    \/ ListenAppend(1) /\ UNCHANGED nonBusVars
    \/ ListenNew(1) /\ UNCHANGED nonBusVars
    \/ ListenCheck(1) /\ UNCHANGED nonBusVars
    \/ ListenCall(1) /\ UNCHANGED nonBusVars
    \/ Return(1) /\ UNCHANGED nonBusVars

SchedWorker ==
    \/ WStart /\ UNCHANGED otherThanSched
    \/ WLoop /\ UNCHANGED otherThanSched
    \/ WSleep /\ UNCHANGED otherThanSched
    \/ WCheckAbort /\ UNCHANGED otherThanSched
    \/ WCheckPause /\ UNCHANGED otherThanSched
    \/ WPauseSleep /\ UNCHANGED otherThanSched
    \/ WFor /\ UNCHANGED otherThanSched
    \/ WScheduled /\ UNCHANGED otherThanSched
    \/ JobRun /\ UNCHANGED otherThanSched
    \/ JobProcessWork /\ UNCHANGED otherThanSched
    \/ JobProcessFlush /\ UNCHANGED <<lifeVars, regVars>>
    \/ PqBegin(Worker) /\ UNCHANGED nonBusVars
    \/ PqAcquire(Worker) /\ UNCHANGED nonBusVars
    \/ PqSwap(Worker) /\ UNCHANGED nonBusVars
    \/ PqRelease(Worker) /\ UNCHANGED nonBusVars
    \/ PqItem(Worker) /\ UNCHANGED nonBusVars
    \/ PqListener(Worker) /\ UNCHANGED nonBusVars
    \/ PqLast(Worker) /\ UNCHANGED nonBusVars
    \/ PqEnd(Worker) /\ UNCHANGED nonBusVars
    \/ JobProcessReturn /\ UNCHANGED <<lifeVars, regVars>>
    \/ JobResched /\ UNCHANGED otherThanSched
    \/ WFinish /\ UNCHANGED otherThanSched

SchedTick == Tick /\ UNCHANGED otherThanSched

NextScheduler == SchedCall \/ SchedWorker \/ SchedTick

InitScheduler == InitKernelBus /\ InitKernelModules /\ InitKernelCron

SpecScheduler == InitScheduler /\ [][NextScheduler]_vars

\* The worker invokes a job's work item (KernelJob.run line 38) in this step.
JobStarts == wpc = "process" /\ wpc' \in {"resched", "in_process"}

\* The worker, in the flush job, invokes a listener in this step.
FlushDelivers == Len(hist'[Worker].calls) > Len(hist[Worker].calls)

\* C6, as stated: from the return of pause() until resume() is called the
\* worker starts no job's work item and the flush job delivers no signal.
C6_PausePreventsExecution ==
    [][pauseReq # "none" => ~(JobStarts \/ FlushDelivers)]_vars

\* C6, as the code has it: pause() takes effect at the worker's next check of
\* line 61.  While the run-state is Paused the worker begins no pass over the
\* jobs, and a work item that starts or a signal that is delivered while the
\* run-state is Paused belongs to the pass that was in progress when pause()
\* was called.
C6_PauseHoldsNextPass ==
    [][ /\ (~InCycle /\ InCycle') => state # THREAD_STATE_PAUSED
        /\ ((JobStarts \/ FlushDelivers) /\ state = THREAD_STATE_PAUSED)
             => pauseReq = "mid_cycle" ]_vars

\* The worker has seen Paused and holds a due job and a pending signal.
C6_Witness ==
    /\ state = THREAD_STATE_PAUSED
    /\ pauseReq = "between"
    /\ wpc = "pause_sleep"
    /\ wsleep = 0
    /\ \E j \in DOMAIN job : InList(jobs, j) /\ Scheduled(j) /\ job[j].process = "work"
    /\ QueueHas(message_queue, SchedTopic)
    /\ Has(listeners, SchedTopic)

\* C7: once the run-state is Aborted no step changes it to anything but
\* Finished: not pause(), resume(), stop(), nor any step of the worker.
C7_StopIsTerminal ==
    [][state = THREAD_STATE_ABORT
         => state' \in {THREAD_STATE_ABORT, THREAD_STATE_FINISHED}]_vars

\* C16: after a stop() that found the worker waiting in the paused state, and
\* with no resume() or pause() since, the worker starts no job's work item.
C16_StopInPauseRunsNothing ==
    [][pauseReq = "stopped_waiting" => ~JobStarts]_vars

\* ------------------------------------------------ threads, shutdown
ThreadNames == {"T1", "T2"}

\* thread.is_alive(): true from start() until run() has ended.  The Scheduler
\* object is alive while its worker is anywhere in Scheduler.run.
IsAlive(thread_name) ==
    IF thread_name = "Scheduler"
    THEN wpc \notin {"none", "unstarted", "exited", "crashed"}
    ELSE alive[thread_name] = "alive"

\* Kernel.add_thread(thread_name, object), with a thread object the caller
\* has created (not started yet) or has started already.
AddThread(thread_name, object) ==
    /\ threads' = ThreadsPut(threads, thread_name)
    /\ alive' = DictSet(alive, thread_name, object)
    /\ UNCHANGED <<sd, state, jobs, job, wpc, ji, cur, wsleep, runs, pauseReq>>

\* Kernel.remove_thread(thread_name): del self.threads[thread_name]
RemoveThread(thread_name) ==
    /\ InList(threads, thread_name)
    /\ threads' = ListRemove(threads, thread_name)
    /\ UNCHANGED <<alive, sd, state, jobs, job, wpc, ji, cur, wsleep, runs, pauseReq>>

\* The owner of a registered thread object calls its start().
ThreadStart(thread_name) ==
    /\ Has(alive, thread_name)
    /\ alive[thread_name] = "unstarted"
    /\ alive' = [alive EXCEPT ![thread_name] = "alive"]
    /\ UNCHANGED <<sd, threads, state, jobs, job, wpc, ji, cur, wsleep, runs, pauseReq>>

\* The run() of a registered thread ends.
ThreadExit(thread_name) ==
    /\ Has(alive, thread_name)
    /\ alive[thread_name] = "alive"
    /\ alive' = [alive EXCEPT ![thread_name] = "dead"]
    /\ UNCHANGED <<sd, threads, state, jobs, job, wpc, ji, cur, wsleep, runs, pauseReq>>

\* Kernel.shutdown(), line 356: self.cron.stop().  With self.cron still None
\* the attribute access raises AttributeError.
ShutdownStop ==
    /\ sd.pc = "idle"
    /\ IF wpc = "none"
       THEN /\ sd' = [sd EXCEPT !.pc = "raised", !.raised = "AttributeError"]
            /\ state' = state
       ELSE /\ sd' = [sd EXCEPT !.pc = "modules", !.log = Append(@, "cron.stop"),
                                !.todo = DOMAIN modules,
                                !.size = Cardinality(DOMAIN modules)]
            /\ state' = THREAD_STATE_ABORT
    /\ UNCHANGED <<modules, mstate, life, alive, threads, jobs, job, wpc, ji, cur,
                   wsleep, runs, pauseReq>>

\* lines 357-362: for module_name in self.modules: module.stop(), with
\* AttributeError swallowed.  A dict that changed size since the loop began
\* makes the iterator raise RuntimeError.
ShutdownModule ==
    /\ sd.pc = "modules"
    /\ IF Cardinality(DOMAIN modules) # sd.size
       THEN /\ sd' = [sd EXCEPT !.pc = "raised", !.raised = "RuntimeError"]
            /\ mstate' = mstate
       ELSE IF sd.todo = {}
       THEN /\ sd' = [sd EXCEPT !.pc = "threads", !.ti = 1, !.size = Len(threads),
                                !.log = Append(@, "modules")]
            /\ mstate' = mstate
       ELSE \E module_name \in sd.todo :
               /\ sd' = [sd EXCEPT !.todo = @ \ {module_name}]
               /\ mstate' = IF "stop" \in modules[module_name]
                            THEN [mstate EXCEPT ![module_name] = "stop"]
                            ELSE mstate
    /\ UNCHANGED <<modules, life, alive, threads, state, jobs, job, wpc, ji, cur,
                   wsleep, runs, pauseReq>>

\* lines 363-364: for thread_name in self.threads: thread = self.threads[..];
\* when the iterator is exhausted shutdown() returns.
ShutdownThread ==
    /\ sd.pc = "threads"
    /\ IF Len(threads) # sd.size
       THEN sd' = [sd EXCEPT !.pc = "raised", !.raised = "RuntimeError"]
       ELSE IF sd.ti > Len(threads)
       THEN sd' = [sd EXCEPT !.pc = "returned", !.thread = None,
                             !.log = Append(@, "threads"),
                             !.aliveAtReturn = {n \in ThreadNames \cup {"Scheduler"} :
                                                  InList(threads, n) /\ IsAlive(n)}]
       ELSE sd' = [sd EXCEPT !.pc = "poll", !.thread = threads[sd.ti], !.ti = @ + 1]
    /\ UNCHANGED <<modules, mstate, life, alive, threads, state, jobs, job, wpc, ji,
                   cur, wsleep, runs, pauseReq>>

\* line 365: while thread.is_alive():
ShutdownPoll ==
    /\ sd.pc = "poll"
    /\ sd' = [sd EXCEPT !.pc = IF IsAlive(sd.thread) THEN "sleep" ELSE "threads"]
    /\ UNCHANGED <<modules, mstate, life, alive, threads, state, jobs, job, wpc, ji,
                   cur, wsleep, runs, pauseReq>>

\* line 366: time.sleep(0.1) is over
ShutdownSleep ==
    /\ sd.pc = "sleep"
    /\ sd' = [sd EXCEPT !.pc = "poll"]
    /\ UNCHANGED <<modules, mstate, life, alive, threads, state, jobs, job, wpc, ji,
                   cur, wsleep, runs, pauseReq>>

\* The kernel is booted, modules and threads are registered, threads start
\* and end, the worker runs, and shutdown() is called once, at any moment.
ShutdownModules == {"M1"}

ShutdownCall ==
    \/ BootCreate /\ UNCHANGED otherThanSched
    \/ BootStart /\ UNCHANGED otherThanSched
    \/ \E n \in ShutdownModules, c \in ModuleClasses :
          ~Has(modules, n) /\ AddModule(n, c) /\ UNCHANGED <<busVars, schedVars, regVars>>
    \/ \E n \in ThreadNames, o \in {"unstarted", "alive"} :
          ~Has(alive, n) /\ AddThread(n, o) /\ UNCHANGED <<busVars, lifeVars, conc, clock>>
    \/ \E n \in ThreadNames : RemoveThread(n) /\ UNCHANGED <<busVars, lifeVars, conc, clock>>
    \/ \E n \in ThreadNames : ThreadStart(n) /\ UNCHANGED <<busVars, lifeVars, conc, clock>>
    \/ \E n \in ThreadNames : ThreadExit(n) /\ UNCHANGED <<busVars, lifeVars, conc, clock>>
    \/ ShutdownStop /\ UNCHANGED <<busVars, conc, clock>>
    \/ ShutdownModule /\ UNCHANGED <<busVars, conc, clock>>
    \/ ShutdownThread /\ UNCHANGED <<busVars, conc, clock>>
    \/ ShutdownPoll /\ UNCHANGED <<busVars, conc, clock>>
    \/ ShutdownSleep /\ UNCHANGED <<busVars, conc, clock>>

ShutdownWorker ==
    \/ WStart /\ UNCHANGED otherThanSched
    \/ WLoop /\ UNCHANGED otherThanSched
    \/ WSleep /\ UNCHANGED otherThanSched
    \/ WCheckAbort /\ UNCHANGED otherThanSched
    \/ WCheckPause /\ UNCHANGED otherThanSched
    \/ WFor /\ UNCHANGED otherThanSched
    \/ WScheduled /\ UNCHANGED otherThanSched
    \/ JobRun /\ UNCHANGED otherThanSched
    \/ JobProcessFlush /\ UNCHANGED <<lifeVars, regVars>>
    \/ PqBegin(Worker) /\ UNCHANGED nonBusVars
    \/ PqAcquire(Worker) /\ UNCHANGED nonBusVars
    \/ PqSwap(Worker) /\ UNCHANGED nonBusVars
    \/ PqRelease(Worker) /\ UNCHANGED nonBusVars
    \/ PqItem(Worker) /\ UNCHANGED nonBusVars
    \/ PqEnd(Worker) /\ UNCHANGED nonBusVars
    \/ JobProcessReturn /\ UNCHANGED <<lifeVars, regVars>>
    \/ JobResched /\ UNCHANGED otherThanSched
    \/ WFinish /\ UNCHANGED otherThanSched

ShutdownTick == Tick /\ UNCHANGED otherThanSched

NextShutdown == ShutdownCall \/ ShutdownWorker \/ ShutdownTick

InitShutdown == InitKernelBus /\ InitKernelModules /\ InitKernelCron

SpecShutdown == InitShutdown /\ [][NextShutdown]_vars

\* C8: shutdown() requests the scheduler's stop, then stops the modules, then
\* waits for the threads, and when it returns no registered thread is alive.
C8_ShutdownWaitsForThreads ==
    sd.pc = "returned" =>
        /\ sd.log = <<"cron.stop", "modules", "threads">>
        /\ sd.aliveAtReturn = {}

\* -------------------------------------------- the bus, N emitters
\* Each of the threads 1 .. NThreads has a topic of its own; listeners are
\* subscribed, then every thread calls signal() once on its topic while the
\* flushing thread runs process_queue cycles at any moment.  The cycle that
\* begins when every signal() has returned is the final one.
EmitTopics == <<"a", "b", "c">>

EmitTopic(t) == EmitTopics[t]

concOther == <<lifeVars, schedVars, alive, sd, clock>>

AllReturned == \A t \in Threads : conc.value[t] # None /\ Idle(t)

ConcEmitter(t) ==
    \/ \E f \in Fns :
          /\ \A u \in Threads : conc.value[u] = None
          /\ Listen(t, EmitTopic(t), f)
          /\ UNCHANGED <<conc, concOther>>
    \/ ListenGet(t) /\ UNCHANGED <<conc, concOther>>
    \/ ListenAppend(t) /\ UNCHANGED <<conc, concOther>>
    \/ ListenNew(t) /\ UNCHANGED <<conc, concOther>>
    \/ ListenCheck(t) /\ UNCHANGED <<conc, concOther>>
    \/ \E v \in Values :
          /\ conc.value[t] = None
          /\ Signal(t, EmitTopic(t), v)
          /\ conc' = [conc EXCEPT !.value[t] = v]
          /\ UNCHANGED concOther
    \/ SignalStore(t) /\ UNCHANGED <<conc, concOther>>
    \/ SignalRelease(t) /\ UNCHANGED <<conc, concOther>>
    \/ Return(t) /\ UNCHANGED <<conc, concOther>>

ConcFlusher ==
    \/ /\ ~conc.final
       /\ DelegateMessages(Worker)
       /\ conc' = [conc EXCEPT !.final = AllReturned]
       /\ UNCHANGED concOther
    \/ PqBegin(Worker) /\ UNCHANGED <<conc, concOther>>
    \/ PqAcquire(Worker) /\ UNCHANGED <<conc, concOther>>
    \/ PqSwap(Worker) /\ UNCHANGED <<conc, concOther>>
    \/ PqRelease(Worker) /\ UNCHANGED <<conc, concOther>>
    \/ PqItem(Worker) /\ UNCHANGED <<conc, concOther>>
    \/ /\ PqListener(Worker)
       /\ conc' = IF Len(hist'[Worker].calls) > Len(hist[Worker].calls)
                  THEN [conc EXCEPT !.delivered =
                           Append(@, hist'[Worker].calls[Len(hist'[Worker].calls)])]
                  ELSE conc
       /\ UNCHANGED concOther
    \/ PqLast(Worker) /\ UNCHANGED <<conc, concOther>>
    \/ PqEnd(Worker) /\ UNCHANGED <<conc, concOther>>
    \/ ~conc.final /\ Return(Worker) /\ UNCHANGED <<conc, concOther>>

NextBusConc == (\E t \in Threads : ConcEmitter(t)) \/ ConcFlusher

InitBusConc == InitKernelBus /\ InitKernelModules /\ InitKernelCron

SpecBusConc == InitBusConc /\ [][NextBusConc]_vars

\* Every invocation the flushes made for one topic, in order.
DeliveredFor(k) == SelectSeq(conc.delivered, LAMBDA c : c[1] = k)

\* C10: when the flush that began after every thread's signal() had returned
\* is over, every thread's topic has been delivered to each entry of its
\* listener list exactly once, with the value the thread signalled, counting
\* all the flushes that ran, and nothing is left pending.
C10_ConcurrentSignalsOnce ==
    (conc.final /\ Flushed(Worker)) =>
        /\ \A t \in Threads :
              DeliveredFor(EmitTopic(t))
                = OncePerEntry(EmitTopic(t), ListOf(EmitTopic(t)), conc.value[t])
        /\ message_queue = <<>>

\* Every topic has a listener; an earlier flush, running while the threads
\* signalled, delivered some of the topics and the final flush the others.
C10_Witness ==
    /\ conc.final /\ Flushed(Worker)
    /\ \A t \in Threads : Has(listeners, EmitTopic(t))
    /\ Len(hist[Worker].calls) >= 1
    /\ Len(hist[Worker].calls) < Len(conc.delivered)

\* ------------------------------------------ work that raises
\* The scheduler runs; callers register jobs whose work item may raise, and
\* subscribe listeners that may raise; nobody pauses or stops the scheduler.
FaultCall ==
    \/ BootCreate /\ UNCHANGED otherThanSched
    \/ BootStart /\ UNCHANGED otherThanSched
    \/ \E p \in {"work", "faulty"}, i \in SchedIntervals, n \in SchedTimes :
          /\ Cardinality(DOMAIN job) < 1 + SchedJobs
          /\ AddJob(p, i, n)
          /\ UNCHANGED otherThanSched
    \/ \E v \in SchedValues : Signal(1, SchedTopic, v) /\ UNCHANGED nonBusVars
    \/ SignalStore(1) /\ UNCHANGED nonBusVars
    \/ SignalRelease(1) /\ UNCHANGED nonBusVars
    \/ \E f \in {SchedFn} \cup FaultyFns :
          Listen(1, SchedTopic, f) /\ UNCHANGED nonBusVars
    \/ ListenGet(1) /\ UNCHANGED nonBusVars
    \/ ListenAppend(1) /\ UNCHANGED nonBusVars
    \/ ListenNew(1) /\ UNCHANGED nonBusVars
    \/ ListenCheck(1) /\ UNCHANGED nonBusVars
    \/ ListenCall(1) /\ UNCHANGED nonBusVars
    \/ Return(1) /\ UNCHANGED nonBusVars

FaultWorker ==
    \/ WStart /\ UNCHANGED otherThanSched
    \/ WLoop /\ UNCHANGED otherThanSched
    \/ WSleep /\ UNCHANGED otherThanSched
    \/ WCheckAbort /\ UNCHANGED otherThanSched
    \/ WCheckPause /\ UNCHANGED otherThanSched
    \/ WFor /\ UNCHANGED otherThanSched
    \/ WScheduled /\ UNCHANGED otherThanSched
    \/ JobRun /\ UNCHANGED otherThanSched
    \/ JobProcessWork /\ UNCHANGED otherThanSched
    \/ JobProcessRaises /\ UNCHANGED otherThanSched
    \/ JobProcessFlush /\ UNCHANGED <<lifeVars, regVars>>
    \/ PqBegin(Worker) /\ UNCHANGED nonBusVars
    \/ PqAcquire(Worker) /\ UNCHANGED nonBusVars
    \/ PqSwap(Worker) /\ UNCHANGED nonBusVars
    \/ PqRelease(Worker) /\ UNCHANGED nonBusVars
    \/ PqItem(Worker) /\ UNCHANGED nonBusVars
    \/ PqListener(Worker) /\ UNCHANGED nonBusVars
    \/ PqListenerRaises(Worker) /\ UNCHANGED nonBusVars
    \/ PqLast(Worker) /\ UNCHANGED nonBusVars
    \/ PqEnd(Worker) /\ UNCHANGED nonBusVars
    \/ JobProcessFlushRaises /\ UNCHANGED <<lifeVars, regVars>>
    \/ JobProcessReturn /\ UNCHANGED <<lifeVars, regVars>>
    \/ JobResched /\ UNCHANGED otherThanSched

FaultTick == Tick /\ UNCHANGED otherThanSched

NextFaults == FaultCall \/ FaultWorker \/ FaultTick

InitFaults == InitKernelBus /\ InitKernelModules /\ InitKernelCron

SpecFaults == InitFaults /\ [][NextFaults]_vars

\* C11: no exception of a work item or of a listener ends the worker: the
\* thread is never brought down by one.
C11_FaultNeverStopsWorker == wpc # "crashed"

\* ------------------------------------------------------ a timed run
\* The best case for the number of executions: the jobs are registered
\* before the worker starts, and the worker's statements take no time, so
\* time passes only while the worker is in time.sleep(0.1).  The run is
\* followed for Horizon units and the executions of each job are counted.
timedOther == <<lifeVars, alive, sd, conc, listeners, lists, last_message,
                message_queue, queue_lock, is_queue_processing, pc, loc, hist,
                prev, latest>>

\* The work item of the job the worker is at is invoked in this step.
Counted == [clock EXCEPT !.n = DictSet(@, cur, IF Has(@, cur) THEN @[cur] + 1 ELSE 1)]

TimedCall ==
    \/ BootCreate /\ UNCHANGED <<clock, timedOther>>
    \/ BootStart /\ UNCHANGED <<clock, timedOther>>
    \/ \E i \in JobIntervals, n \in JobTimes :
          /\ wpc = "unstarted"
          /\ AddJob("work", i, n)
          /\ UNCHANGED <<clock, timedOther>>

TimedWorker ==
    \/ WStart /\ UNCHANGED <<clock, timedOther>>
    \/ WLoop /\ UNCHANGED <<clock, timedOther>>
    \/ WSleep /\ UNCHANGED <<clock, timedOther>>
    \/ WCheckAbort /\ UNCHANGED <<clock, timedOther>>
    \/ WCheckPause /\ UNCHANGED <<clock, timedOther>>
    \/ WFor /\ UNCHANGED <<clock, timedOther>>
    \/ WScheduled /\ UNCHANGED <<clock, timedOther>>
    \/ JobRun /\ UNCHANGED <<clock, timedOther>>
    \/ JobProcessWork /\ clock' = Counted /\ UNCHANGED timedOther
    \/ JobProcessFlush /\ clock' = Counted /\ UNCHANGED <<lifeVars, alive, sd, conc>>
    \/ PqBegin(Worker) /\ UNCHANGED nonBusVars
    \/ PqAcquire(Worker) /\ UNCHANGED nonBusVars
    \/ PqSwap(Worker) /\ UNCHANGED nonBusVars
    \/ PqRelease(Worker) /\ UNCHANGED nonBusVars
    \/ PqItem(Worker) /\ UNCHANGED nonBusVars
    \/ PqEnd(Worker) /\ UNCHANGED nonBusVars
    \/ JobProcessReturn /\ UNCHANGED <<lifeVars, regVars>>
    \/ JobResched /\ UNCHANGED <<clock, timedOther>>

TimedTick ==
    /\ wpc = "sleep"
    /\ wsleep > 0
    /\ clock.t < Horizon
    /\ Tick
    /\ clock' = [clock EXCEPT !.t = @ + 1]
    /\ UNCHANGED timedOther

NextTimed == TimedCall \/ TimedWorker \/ TimedTick

InitTimed == InitKernelBus /\ InitKernelModules /\ InitKernelCron

SpecTimed == InitTimed /\ [][NextTimed]_vars

\* Executions of job j in the run so far.
Executions(j) == IF Has(clock.n, j) THEN clock.n[j] ELSE 0

\* x / y rounded up
CeilDiv(x, y) == (x + y - 1) \div y

\* The worker has finished a pass and begins to sleep: everything that was
\* due by now has been executed.
PassDone == wpc = "sleep" /\ wsleep = PollSleep

\* C12: after the scheduler has run for T, a job of interval I and unlimited
\* count has been executed at most ceil(T/I) + 1 times and, once the pass at
\* time T is done, at least floor(T/I) - 1 times.
C12_ExecutionCountBound ==
    \A j \in DOMAIN job :
        LET T == clock.t
            I == job[j].interval
        IN  runs[j].n = <<>> =>
               /\ Executions(j) <= CeilDiv(T, I) + 1
               /\ PassDone => Executions(j) >= (T \div I) - 1

\* C14: a job that removes itself from the list during a pass does not make
\* the worker miss another job: time stands still during the pass, so a job
\* that is in the list and due when the pass is over was due when the pass
\* began and was not executed in it.  There is no such job.
C14_SelfRemovalKeepsIteration ==
    PassDone => \A i \in 1 .. Len(jobs) : ~Scheduled(jobs[i])

\* ------------------------------------- listen() against a flush
\* Thread 1 subscribes listeners to a topic, each once, while thread 2
\* signals on the topic and flushes.  conc.recent keeps, for each listener,
\* the value of its latest invocation, by a flush or by listen().
RaceTopic == "a"

raceOther == <<lifeVars, schedVars, alive, sd, clock>>

\* The listener and the value of the invocation thread t makes in this step.
Invoked(t) ==
    LET c == hist'[t].calls[Len(hist'[t].calls)]
    IN  [conc EXCEPT !.recent[c[2]] = c[3]]

RaceListener ==
    \/ \E f \in Fns :
          /\ ~InList(ListOf(RaceTopic), f)
          /\ Listen(1, RaceTopic, f)
          /\ UNCHANGED <<conc, raceOther>>
    \/ ListenGet(1) /\ UNCHANGED <<conc, raceOther>>
    \/ ListenAppend(1) /\ UNCHANGED <<conc, raceOther>>
    \/ ListenNew(1) /\ UNCHANGED <<conc, raceOther>>
    \/ ListenCheck(1) /\ UNCHANGED <<conc, raceOther>>
    \/ ListenCall(1) /\ conc' = Invoked(1) /\ UNCHANGED raceOther
    \/ Return(1) /\ UNCHANGED <<conc, raceOther>>

RaceFlusher ==
    \/ \E v \in Values : Signal(2, RaceTopic, v) /\ UNCHANGED <<conc, raceOther>>
    \/ SignalStore(2) /\ UNCHANGED <<conc, raceOther>>
    \/ SignalRelease(2) /\ UNCHANGED <<conc, raceOther>>
    \/ DelegateMessages(2) /\ UNCHANGED <<conc, raceOther>>
    \/ PqBegin(2) /\ UNCHANGED <<conc, raceOther>>
    \/ PqAcquire(2) /\ UNCHANGED <<conc, raceOther>>
    \/ PqSwap(2) /\ UNCHANGED <<conc, raceOther>>
    \/ PqRelease(2) /\ UNCHANGED <<conc, raceOther>>
    \/ PqItem(2) /\ UNCHANGED <<conc, raceOther>>
    \/ /\ PqListener(2)
       /\ conc' = IF Len(hist'[2].calls) > Len(hist[2].calls) THEN Invoked(2) ELSE conc
       /\ UNCHANGED raceOther
    \/ PqLast(2) /\ UNCHANGED <<conc, raceOther>>
    \/ PqEnd(2) /\ UNCHANGED <<conc, raceOther>>
    \/ Return(2) /\ UNCHANGED <<conc, raceOther>>

NextListenRace == RaceListener \/ RaceFlusher

InitListenRace == InitKernelBus /\ InitKernelModules /\ InitKernelCron

SpecListenRace == InitListenRace /\ [][NextListenRace]_vars

\* No flush and no listen() is in progress.
RaceQuiet ==
    /\ ~is_queue_processing
    /\ pc[1] \in {"idle", "return"}
    /\ pc[2] \in {"idle", "return", "signal_store", "signal_release"}

\* C13: when the flush that recorded last_message[topic] = v is over and no
\* listen() is under way, every listener in the topic's list was last
\* invoked with v.
C13_NoStaleSubscriber ==
    (RaceQuiet /\ Has(last_message, RaceTopic)) =>
        \A i \in 1 .. Len(ListOf(RaceTopic)) :
            conc.recent[ListOf(RaceTopic)[i]] = last_message[RaceTopic]

\* ------------------------------------- two callers of delegate_messages()
\* Threads 1 and 2 both call delegate_messages(); thread 1 also subscribes
\* listeners, each once, and both signal on the topic.
FlushCaller(t) ==
    \/ \E v \in Values : Signal(t, RaceTopic, v) /\ UNCHANGED nonBusVars
    \/ SignalStore(t) /\ UNCHANGED nonBusVars
    \/ SignalRelease(t) /\ UNCHANGED nonBusVars
    \/ DelegateMessages(t) /\ UNCHANGED nonBusVars
    \/ PqBegin(t) /\ UNCHANGED nonBusVars
    \/ PqAcquire(t) /\ UNCHANGED nonBusVars
    \/ PqSwap(t) /\ UNCHANGED nonBusVars
    \/ PqRelease(t) /\ UNCHANGED nonBusVars
    \/ PqItem(t) /\ UNCHANGED nonBusVars
    \/ PqListener(t) /\ UNCHANGED nonBusVars
    \/ PqLast(t) /\ UNCHANGED nonBusVars
    \/ PqEnd(t) /\ UNCHANGED nonBusVars
    \/ Return(t) /\ UNCHANGED nonBusVars

FlushSubscriber ==
    \/ \E f \in Fns :
          /\ ~InList(ListOf(RaceTopic), f)
          /\ Listen(1, RaceTopic, f)
          /\ UNCHANGED nonBusVars
    \/ ListenGet(1) /\ UNCHANGED nonBusVars
    \/ ListenAppend(1) /\ UNCHANGED nonBusVars
    \/ ListenNew(1) /\ UNCHANGED nonBusVars
    \/ ListenCheck(1) /\ UNCHANGED nonBusVars
    \/ ListenCall(1) /\ UNCHANGED nonBusVars

NextFlushRace == FlushCaller(1) \/ FlushCaller(2) \/ FlushSubscriber

InitFlushRace == InitKernelBus /\ InitKernelModules /\ InitKernelCron

SpecFlushRace == InitFlushRace /\ [][NextFlushRace]_vars

\* Thread t is inside process_queue, between line 188 and line 200.
InCycleOf(t) ==
    pc[t] \in {"pq_acquire", "pq_swap", "pq_release", "pq_item", "pq_listener",
               "pq_last", "pq_end"}

\* C17: at most one process_queue cycle is between its start and its end.
C17_FlushCyclesNeverOverlap == ~(InCycleOf(1) /\ InCycleOf(2))

\* ------------------------------------- two callers of listen()
\* Threads 1 and 2 both subscribe listeners to the topic; thread 1 also
\* signals on it and flushes.  Nobody unsubscribes.
Subscriber(t) ==
    \/ \E f \in Fns :
          /\ ~InList(ListOf(RaceTopic), f)
          /\ Listen(t, RaceTopic, f)
          /\ UNCHANGED nonBusVars
    \/ ListenGet(t) /\ UNCHANGED nonBusVars
    \/ ListenAppend(t) /\ UNCHANGED nonBusVars
    \/ ListenNew(t) /\ UNCHANGED nonBusVars
    \/ ListenCheck(t) /\ UNCHANGED nonBusVars
    \/ ListenCall(t) /\ UNCHANGED nonBusVars
    \/ Return(t) /\ UNCHANGED nonBusVars

SubscriberFlush ==
    \/ \E v \in Values : Signal(1, RaceTopic, v) /\ UNCHANGED nonBusVars
    \/ SignalStore(1) /\ UNCHANGED nonBusVars
    \/ SignalRelease(1) /\ UNCHANGED nonBusVars
    \/ DelegateMessages(1) /\ UNCHANGED nonBusVars
    \/ PqBegin(1) /\ UNCHANGED nonBusVars
    \/ PqAcquire(1) /\ UNCHANGED nonBusVars
    \/ PqSwap(1) /\ UNCHANGED nonBusVars
    \/ PqRelease(1) /\ UNCHANGED nonBusVars
    \/ PqItem(1) /\ UNCHANGED nonBusVars
    \/ PqListener(1) /\ UNCHANGED nonBusVars
    \/ PqLast(1) /\ UNCHANGED nonBusVars
    \/ PqEnd(1) /\ UNCHANGED nonBusVars

NextSubscribers == Subscriber(1) \/ Subscriber(2) \/ SubscriberFlush

InitSubscribers == InitKernelBus /\ InitKernelModules /\ InitKernelCron

SpecSubscribers == InitSubscribers /\ [][NextSubscribers]_vars

\* C20: a function whose listen() has returned is in the topic's listener
\* list, whatever another listen() did meanwhile.
C20_NoLostSubscription ==
    \A t \in Threads :
        (Returned(t) /\ hist[t].op = "listen")
            => InList(ListOf(hist[t].a), hist[t].b)

\* ------------------------------------------ boot(), then shutdown()
\* boot() is called and returns; at any later moment shutdown() is called.
\* No module and no other thread is registered and nobody pauses or resumes.
\* The worker thread, the passage of time, and the callers inside boot() and
\* inside shutdown() make progress: these are weakly fair.
stopOther == <<lifeVars, alive, sd, conc, clock, listeners, lists, last_message,
               message_queue, queue_lock, is_queue_processing, pc, loc, hist,
               prev, latest>>

StopBoot ==
    \/ BootCreate /\ UNCHANGED stopOther
    \/ BootStart /\ UNCHANGED stopOther

\* shutdown() is entered once boot() has returned.
StopShutdownCall ==
    /\ wpc \notin {"none", "unstarted"}
    /\ ShutdownStop
    /\ UNCHANGED <<busVars, conc, clock>>

StopShutdownSteps ==
    \/ ShutdownModule /\ UNCHANGED <<busVars, conc, clock>>
    \/ ShutdownThread /\ UNCHANGED <<busVars, conc, clock>>
    \/ ShutdownPoll /\ UNCHANGED <<busVars, conc, clock>>
    \/ ShutdownSleep /\ UNCHANGED <<busVars, conc, clock>>

StopWorker ==
    \/ WStart /\ UNCHANGED stopOther
    \/ WLoop /\ UNCHANGED stopOther
    \/ WSleep /\ UNCHANGED stopOther
    \/ WCheckAbort /\ UNCHANGED stopOther
    \/ WCheckPause /\ UNCHANGED stopOther
    \/ WFor /\ UNCHANGED stopOther
    \/ WScheduled /\ UNCHANGED stopOther
    \/ JobRun /\ UNCHANGED stopOther
    \/ JobProcessFlush /\ UNCHANGED <<lifeVars, regVars>>
    \/ PqBegin(Worker) /\ UNCHANGED nonBusVars
    \/ PqAcquire(Worker) /\ UNCHANGED nonBusVars
    \/ PqSwap(Worker) /\ UNCHANGED nonBusVars
    \/ PqRelease(Worker) /\ UNCHANGED nonBusVars
    \/ PqItem(Worker) /\ UNCHANGED nonBusVars
    \/ PqEnd(Worker) /\ UNCHANGED nonBusVars
    \/ JobProcessReturn /\ UNCHANGED <<lifeVars, regVars>>
    \/ JobResched /\ UNCHANGED stopOther
    \/ WFinish /\ UNCHANGED stopOther

StopTick == Tick /\ UNCHANGED stopOther

NextStop == StopBoot \/ StopShutdownCall \/ StopShutdownSteps \/ StopWorker \/ StopTick

InitStop == InitKernelBus /\ InitKernelModules /\ InitKernelCron

SpecStop ==
    /\ InitStop
    /\ [][NextStop]_vars
    /\ WF_vars(StopBoot)
    /\ WF_vars(StopShutdownSteps)
    /\ WF_vars(StopWorker)
    /\ WF_vars(StopTick)

\* C15: when the worker has left run() the run-state is Finished.
C15_ExitMarksFinished == wpc = "exited" => state = THREAD_STATE_FINISHED

\* C19: a shutdown() that was called after boot() eventually returns.
C19_ShutdownReturns == (sd.pc # "idle") ~> (sd.pc = "returned")

\* ------------------------------------- a listener that calls signal()
\* One thread subscribes plain and emitting listeners to the two topics,
\* signals on the first topic and flushes.  Only the emitting listener
\* signals on CbTopic.
CbFns == {SchedFn} \cup EmitterFns

CallbackCall ==
    \/ \E k \in BusTopics, f \in CbFns :
          /\ ~InList(ListOf(k), f)
          /\ Listen(1, k, f)
          /\ UNCHANGED nonBusVars
    \/ \E v \in Values : Signal(1, RaceTopic, v) /\ UNCHANGED nonBusVars
    \/ DelegateMessages(1) /\ UNCHANGED nonBusVars
    \/ Return(1) /\ UNCHANGED nonBusVars

CallbackStep ==
    \/ ListenGet(1) /\ UNCHANGED nonBusVars
    \/ ListenAppend(1) /\ UNCHANGED nonBusVars
    \/ ListenNew(1) /\ UNCHANGED nonBusVars
    \/ ListenCheck(1) /\ UNCHANGED nonBusVars
    \/ ListenCall(1) /\ UNCHANGED nonBusVars
    \/ ListenCallEmits(1) /\ UNCHANGED nonBusVars
    \/ SignalStore(1) /\ UNCHANGED nonBusVars
    \/ SignalRelease(1) /\ UNCHANGED nonBusVars
    \/ PqBegin(1) /\ UNCHANGED nonBusVars
    \/ PqAcquire(1) /\ UNCHANGED nonBusVars
    \/ PqSwap(1) /\ UNCHANGED nonBusVars
    \/ PqRelease(1) /\ UNCHANGED nonBusVars
    \/ PqItem(1) /\ UNCHANGED nonBusVars
    \/ PqListener(1) /\ UNCHANGED nonBusVars
    \/ PqListenerEmits(1) /\ UNCHANGED nonBusVars
    \/ CbSignal(1) /\ UNCHANGED nonBusVars
    \/ CbStore(1) /\ UNCHANGED nonBusVars
    \/ CbRelease(1) /\ UNCHANGED nonBusVars
    \/ PqLast(1) /\ UNCHANGED nonBusVars
    \/ PqEnd(1) /\ UNCHANGED nonBusVars

NextCallback == CallbackCall \/ CallbackStep

InitCallback == InitKernelBus /\ InitKernelModules /\ InitKernelCron

SpecCallback == InitCallback /\ [][NextCallback]_vars

\* The call h invoked an emitting listener.
EmitterInvoked(h) == \E i \in 1 .. Len(h.calls) : h.calls[i][2] \in EmitterFns

\* C18: a thread that is calling a listener, or is inside a listener at its
\* call of signal(), does not hold the lock.  When a flush in which a listener
\* signalled has ended, the value is in the pending map; a flush whose
\* snapshot had no value for the listener's topic delivered nothing on it, and
\* a flush whose snapshot had the listener's value delivered it once to every
\* listener of the topic.
C18_ListenerMaySignal ==
    \A t \in Threads :
        /\ pc[t] \in {"pq_listener", "cb_signal"} => queue_lock # t
        /\ (Flushed(t) /\ EmitterInvoked(hist[t])) =>
               /\ QueueHas(message_queue, CbTopic)
               /\ QueueGet(message_queue, CbTopic) = CbValue
        /\ (Flushed(t) /\ hist[t].bLatest[CbTopic] = None) =>
               CallsFor(hist[t], CbTopic) = <<>>
        /\ (Flushed(t) /\ hist[t].bLatest[CbTopic] = CbValue) =>
               CallsFor(hist[t], CbTopic) = OncePerEntry(CbTopic, ListOf(CbTopic), CbValue)

\* C18 witness: a flush has delivered to the listener of CbTopic the value
\* that the emitting listener signalled during the flush before.
C18_Witness ==
    /\ Flushed(1)
    /\ ~EmitterInvoked(hist[1])
    /\ hist[1].bLatest[CbTopic] = CbValue
    /\ last_message[RaceTopic] \in Values
    /\ InList(ListOf(RaceTopic), "e")
    /\ CallsFor(hist[1], CbTopic) = << <<CbTopic, SchedFn, CbValue>> >>

\* ------------------------------------------- lifecycle, specification
NextLifecycle ==
    \/ \E n \in ModuleNames, m \in ModuleClasses : AddModule(n, m) /\ UNCHANGED <<busVars, schedVars, regVars>>
    \/ \E n \in ModuleNames : KernelStart(n) /\ UNCHANGED <<busVars, schedVars, regVars>>
    \/ \E n \in ModuleNames : KernelResume(n) /\ UNCHANGED <<busVars, schedVars, regVars>>
    \/ \E n \in ModuleNames : KernelPause(n) /\ UNCHANGED <<busVars, schedVars, regVars>>
    \/ \E n \in ModuleNames : KernelAbort(n) /\ UNCHANGED <<busVars, schedVars, regVars>>
    \/ \E n \in ModuleNames : KernelReset(n) /\ UNCHANGED <<busVars, schedVars, regVars>>
    \/ \E n \in ModuleNames : KernelStop(n) /\ UNCHANGED <<busVars, schedVars, regVars>>

InitLifecycle == InitKernelBus /\ InitKernelModules /\ InitKernelCron

SpecLifecycle == InitLifecycle /\ [][NextLifecycle]_vars

\* C2: a lifecycle operation on a name that is not registered, or on a module
\* without that method, raises nothing and leaves the module map and every
\* other module's state as they were.
C2_SilentNoOp ==
    ( /\ life.op \in Ops
      /\ \/ ~Has(life.preModules, life.name)
         \/ life.op \notin life.preModules[life.name] )
    => /\ life.raised = "none"
       /\ modules = life.preModules
       /\ \A n \in (DOMAIN mstate) \ {life.name} : mstate[n] = life.preState[n]

\* The calls thread t can make on the bus.
BusCall(t) ==
    \/ \E code \in BusTopics, message \in Values :
           Signal(t, code, message) /\ UNCHANGED nonBusVars
    \/ DelegateMessages(t) /\ UNCHANGED nonBusVars
    \/ \E signal \in BusTopics, function \in Fns :
           Listen(t, signal, function) /\ UNCHANGED nonBusVars
    \/ \E k \in BusTopics, f \in Fns :
           Unlisten(t, k, f) /\ UNCHANGED nonBusVars
    \/ \E k \in BusTopics, f \in Fns :
           Unlisten(t, f, k) /\ UNCHANGED nonBusVars
    \/ \E k \in BusTopics, f \in Fns, value \in {None, "set"} :
           SetItem(t, k, f, value) /\ UNCHANGED nonBusVars

\* The steps of the call thread t is in.
BusStep(t) ==
    \/ SignalStore(t) /\ UNCHANGED nonBusVars
    \/ SignalRelease(t) /\ UNCHANGED nonBusVars
    \/ PqBegin(t) /\ UNCHANGED nonBusVars
    \/ PqAcquire(t) /\ UNCHANGED nonBusVars
    \/ PqSwap(t) /\ UNCHANGED nonBusVars
    \/ PqRelease(t) /\ UNCHANGED nonBusVars
    \/ PqItem(t) /\ UNCHANGED nonBusVars
    \/ PqListener(t) /\ UNCHANGED nonBusVars
    \/ PqLast(t) /\ UNCHANGED nonBusVars
    \/ PqEnd(t) /\ UNCHANGED nonBusVars
    \/ ListenGet(t) /\ UNCHANGED nonBusVars
    \/ ListenAppend(t) /\ UNCHANGED nonBusVars
    \/ ListenNew(t) /\ UNCHANGED nonBusVars
    \/ ListenCheck(t) /\ UNCHANGED nonBusVars
    \/ ListenCall(t) /\ UNCHANGED nonBusVars
    \/ UnlistenGet(t) /\ UNCHANGED nonBusVars
    \/ UnlistenRemove(t) /\ UNCHANGED nonBusVars
    \/ Return(t) /\ UNCHANGED nonBusVars

\* One thread uses the bus: every call runs to its end before the next.
NextBus == BusCall(1) \/ BusStep(1)

InitBus == InitKernelBus /\ InitKernelModules /\ InitKernelCron

SpecBus == InitBus /\ [][NextBus]_vars

\* ------------------------------------------------ claims on the bus
\* C1: when a pending value of a topic was replaced by a later signal() before
\* the swap, the flush invokes every entry of the topic's listener list exactly
\* once, with the value of the last signal(), and never with any other value.
C1_Coalescing ==
    \A t \in AllThreads : \A k \in Topics :
        /\ (Flushing(t) /\ hist[t].bPrev[k] # None) =>
               \A i \in 1 .. Len(hist[t].calls) :
                   hist[t].calls[i][1] = k => hist[t].calls[i][3] = hist[t].bLatest[k]
        /\ (Flushed(t) /\ hist[t].bPrev[k] # None) =>
               CallsFor(hist[t], k) = OncePerEntry(k, ListOf(k), hist[t].bLatest[k])

\* C1 witness: a finished flush delivered v2 to a listener of a topic whose
\* pending v1 had been replaced.
C1_Witness ==
    /\ Flushed(1)
    /\ hist[1].bPrev["a"] = "v1"
    /\ hist[1].bLatest["a"] = "v2"
    /\ CallsFor(hist[1], "a") = << <<"a", "f", "v2">> >>

\* C3: after the documented call unlisten(signal, function) for a function
\* that was subscribed exactly once to the signal, the function is no longer
\* in the signal's listener list, and the flush that follows does not invoke it.
C3_UnlistenRemoves ==
    \A t \in AllThreads :
        /\ (Returned(t) /\ UnsubscribedOnce(hist[t]))
               => ~InList(ListOf(hist[t].a), hist[t].b)
        /\ hist[t].op = "process_queue"
               => \A i \in 1 .. Len(hist[t].calls) :
                      <<hist[t].calls[i][1], hist[t].calls[i][2]>> # hist[t].unsub

\* The topic and the function of an unsubscribe call, whichever way round the
\* caller passed them.
UnsubTopic(h) == IF h.a \in Topics THEN h.a ELSE h.b

UnsubFn(h) == IF h.a \in Topics THEN h.b ELSE h.a

\* C4: an unsubscribe call for a function that is not in the topic's listener
\* list (or for a topic that has no list) raises nothing and leaves the
\* listener map, the pending map and the last-message map as they were.
C4_AbsentIsNoOp ==
    \A t \in AllThreads :
        ( /\ Returned(t) /\ hist[t].op = "unlisten"
          /\ ~InList(PreList(hist[t], UnsubTopic(hist[t])), UnsubFn(hist[t])) )
        => /\ hist[t].raised = "none"
           /\ ListenerMap = hist[t].preListeners
           /\ message_queue = hist[t].preQueue
           /\ last_message = hist[t].preLast

\* C9: listen(signal, function) invokes function once with last_message[signal]
\* when there is one, and invokes nothing when there is none, before it
\* returns and without any flush (the pending and last-message maps are
\* untouched); either way function is the new last entry of the signal's list.
C9_ReplayOnSubscribe ==
    \A t \in AllThreads :
        (Returned(t) /\ hist[t].op = "listen") =>
            LET h == hist[t]
            IN  /\ h.calls = IF Has(h.preLast, h.a)
                             THEN << <<h.a, h.b, h.preLast[h.a]>> >>
                             ELSE <<>>
                /\ ListOf(h.a) = Append(PreList(h, h.a), h.b)
                /\ message_queue = h.preQueue
                /\ last_message = h.preLast

\* C9 witness: listen() on a signal that has a last message and a listener
\* already: the new listener was called with that message and is last.
C9_Witness ==
    /\ Returned(1) /\ hist[1].op = "listen"
    /\ Has(hist[1].preLast, "a")
    /\ hist[1].calls = << <<"a", "g", hist[1].preLast["a"]>> >>
    /\ ListOf("a") = <<"f", "g">>

====
